---- MODULE Spec2Model ----
(***************************************************************************)
(* Model of src/main.rs: an RTIC application in which the TWIS (I2C        *)
(* responder) peripheral and a GPIOTE reset button share one 8-byte DMA    *)
(* buffer through the lock-free slot `transfer`, and the software task     *)
(* send_twi_cmds drives the TWIM (I2C controller) peripheral.              *)
(*                                                                         *)
(* Software steps are the handlers of main.rs, cut where the hardware can  *)
(* act in between (a spin in Transfer::wait, the DMA engine writing BUF).  *)
(* The hardware is the environment: the two-wire bus with one transaction  *)
(* at a time, issued either by TWIM1 (send_twi_cmds) or by an external     *)
(* controller, the TWIS event registers, the PREPARERX/PREPARETX flags     *)
(* (the responder stretches the clock until a transfer is prepared) and    *)
(* the GPIOTE port event latch.                                            *)
(***************************************************************************)
EXTENDS Integers, Sequences, FiniteSets, TLC

VARIABLES
    transfer,   \* Shared.transfer : Option<TwisTransfer>
    buf,        \* contents of BUF, the DMA buffer
    events,     \* TWIS event registers Read, Write, Stopped
    prepared,   \* TWIS internal "RX prepared" / "TX prepared" flags
    latch,      \* GPIOTE port event (edge-detect latch)
    pc,         \* position of each task; "none" = not executing
    held,       \* what on_gpiote / on_twis hold after transfer.take()
    queued,     \* send_twi_cmds instances waiting in the run queue
    panicked,   \* the panic handler has been entered
    panics,     \* how many times the panic handler has been entered
    bus,        \* the two-wire bus: transaction in progress (or last one)
    rx_buf,     \* send_twi_cmds: local read buffer
    res,        \* send_twi_cmds: results of twim.read and twim.write
    issued,     \* send_twi_cmds: controller operations issued so far
    lastEvent,  \* most recent event raised by the hardware
    trail,      \* completed transactions since the last reset, see Trail
    edges,      \* reset edges seen
    runs        \* send_twi_cmds executions completed

vars == <<transfer, buf, events, prepared, latch, pc, held, queued, panicked,
          panics, bus, rx_buf, res, issued, lastEvent, trail, edges, runs>>

----------------------------------------------------------------------------
(* Bounds *)

MaxResets == 2

----------------------------------------------------------------------------
(* Program constants *)

BufLen == 8

TwisAddress == 26

Capacity == 1

Tasks == {"on_gpiote", "on_twis", "send_twi_cmds"}

Handlers == {"on_gpiote", "on_twis"}

\* variant: the reset handler is given a priority above on_twis
Priority_gpiote_above ==
    [t \in Tasks |-> CASE t = "send_twi_cmds" -> 1
                       [] t = "on_twis" -> 2
                       [] t = "on_gpiote" -> 3]

\* variant: the software task is given a priority above the handlers
Priority_task_above ==
    [t \in Tasks |-> IF t = "send_twi_cmds" THEN 3 ELSE 2]

Priority == [t \in Tasks |-> IF t = "send_twi_cmds" THEN 1 ELSE 2]

Zeros == [i \in 1..BufLen |-> 0]

\* variant: the payload counts from zero
tx_buf_from_zero == [i \in 1..BufLen |-> i - 1]

tx_buf == [i \in 1..BufLen |-> i]

ExtPayload == [i \in 1..BufLen |-> 9]

Payload(master) == IF master = "twim" THEN tx_buf ELSE ExtPayload

ReadCmd == [op |-> "read", address |-> TwisAddress, len |-> BufLen]

WriteCmd == [op |-> "write", address |-> TwisAddress, payload |-> tx_buf]

TwiEvent == {"Read", "Write", "Stopped"}

----------------------------------------------------------------------------
(* TwisTransfer and the slot *)

None == [tag |-> "None", dir |-> "-"]

Idle == [tag |-> "Idle", dir |-> "-"]

Running(d) == [tag |-> "Running", dir |-> d]

Pair == [tag |-> "Pair", dir |-> "-"]

TwisTransfer == {Idle, Running("tx"), Running("rx")}

\* variant: the value is copied out and the slot keeps it
take_copy(slot) == slot

\* Option::take leaves None in the slot
take(slot) == None

\* Twis::is_done, polled by Transfer::wait
is_done == events["Stopped"]

\* the records through which the buffer can be reached
Owners ==
    (IF transfer.tag = "Idle" THEN {"idle record"} ELSE {})
    \cup (IF transfer.tag = "Running" THEN {"pending transfer"} ELSE {})
    \cup {h \in Handlers : held[h].tag # "None"}

----------------------------------------------------------------------------
(* Scheduling: NVIC priorities, run-to-completion at equal priority *)

Active(t) == pc[t] # "none"

\* variant: the Stopped interrupt of the TWIS is not enabled
Pending_without_stopped(t) ==
    CASE t = "on_gpiote" -> latch
      [] t = "on_twis" -> events["Read"] \/ events["Write"]
      [] t = "send_twi_cmds" -> queued > 0

\* an interrupt is pending while its event is set; a task while it is queued
Pending(t) ==
    CASE t = "on_gpiote" -> latch
      [] t = "on_twis" -> \E e \in TwiEvent : events[e]
      [] t = "send_twi_cmds" -> queued > 0

\* cortex_m::interrupt::disable() in panic()
InterruptsEnabled == ~panicked

CanEnter(t) ==
    /\ InterruptsEnabled
    /\ Pending(t)
    /\ ~Active(t)
    /\ \A o \in Tasks \ {t} : Active(o) => Priority[o] < Priority[t]
    /\ \A o \in Tasks \ {t} :
          (Pending(o) /\ ~Active(o)) => Priority[o] <= Priority[t]

CanStep(t) ==
    /\ InterruptsEnabled
    /\ Active(t)
    /\ \A o \in Tasks \ {t} : Active(o) => Priority[o] < Priority[t]
    /\ \A o \in Tasks \ {t} :
          (Pending(o) /\ ~Active(o)) => Priority[o] <= Priority[t]

\* variant: the panic handler reports and returns to the interrupted code
panic_returns(t) ==
    /\ panicked' = panicked
    /\ panics' = panics + 1
    /\ pc' = [pc EXCEPT ![t] = "none"]

\* panic(): interrupts disabled, then loop {}
panic(t) ==
    /\ panicked' = TRUE
    /\ panics' = panics + 1
    /\ pc' = [pc EXCEPT ![t] = "panic"]

----------------------------------------------------------------------------
(* Ghost bookkeeping of completed bus transactions *)

Trail == {"none", "w_twim", "w_ext", "wr_twim", "wr_ext"}

TrailAfter(cmd, master) ==
    IF cmd = "w" THEN "w_" \o master
    ELSE IF trail \in {"w_twim", "wr_twim"} THEN "wr_twim"
    ELSE IF trail \in {"w_ext", "wr_ext"} THEN "wr_ext"
    ELSE "none"

EventOf(cmd) == IF cmd = "w" THEN "Write" ELSE "Read"

FreeBus == [phase |-> "free", cmd |-> "-", master |-> "none", n |-> 0, rd |-> <<>>]

----------------------------------------------------------------------------

TypeOK ==
    /\ transfer \in TwisTransfer \cup {None}
    /\ buf \in [1..BufLen -> 0..9]
    /\ events \in [TwiEvent -> BOOLEAN]
    /\ prepared \in [{"rx", "tx"} -> BOOLEAN]
    /\ latch \in BOOLEAN
    /\ pc \in [Tasks -> STRING]
    /\ held \in [Handlers -> TwisTransfer \cup {None, Pair}]
    /\ queued \in 0..Capacity
    /\ panicked \in BOOLEAN
    /\ panics \in Nat
    /\ bus.phase \in {"free", "w", "r"}
    /\ bus.n \in 0..BufLen
    /\ res \in [{"read", "write"} -> {"none", "Ok", "Err"}]
    /\ lastEvent \in TwiEvent \cup {"none", "Reset"}
    /\ trail \in Trail
    /\ edges \in 0..MaxResets
    /\ runs \in 0..MaxResets

\* init(): the slot holds Idle((BUF, twis)), BUF = [0; 8]
Init ==
    /\ transfer = Idle
    /\ buf = Zeros
    /\ events = [e \in TwiEvent |-> FALSE]
    /\ prepared = [d \in {"rx", "tx"} |-> FALSE]
    /\ latch = FALSE
    /\ pc = [t \in Tasks |-> "none"]
    /\ held = [h \in Handlers |-> None]
    /\ queued = 0
    /\ panicked = FALSE
    /\ panics = 0
    /\ bus = FreeBus
    /\ rx_buf = Zeros
    /\ res = [o \in {"read", "write"} |-> "none"]
    /\ issued = <<>>
    /\ lastEvent = "none"
    /\ trail = "none"
    /\ edges = 0
    /\ runs = 0

----------------------------------------------------------------------------
(* Hardware: GPIO edge, the bus, the TWIS DMA engine *)

\* a falling edge on the button pin sets the port event
GpioEdge ==
    /\ edges < MaxResets
    /\ latch' = TRUE
    /\ edges' = edges + 1
    /\ lastEvent' = "Reset"
    /\ UNCHANGED <<transfer, buf, events, prepared, pc, held, queued, panicked,
                   panics, bus, rx_buf, res, issued, trail, runs>>

\* a controller addresses the responder: the Read or Write event is raised
BusStart(cmd, master) ==
    /\ bus.phase = "free"
    /\ bus' = [phase |-> cmd, cmd |-> cmd, master |-> master, n |-> 0, rd |-> <<>>]
    /\ events' = [events EXCEPT ![EventOf(cmd)] = TRUE]
    /\ lastEvent' = EventOf(cmd)

\* an external controller starts a transaction
ExtStart(cmd) ==
    /\ BusStart(cmd, "ext")
    /\ UNCHANGED <<transfer, buf, prepared, latch, pc, held, queued, panicked,
                   panics, rx_buf, res, issued, trail, edges, runs>>

\* an external controller follows its write with a repeated start and a read
ExtRestart ==
    /\ bus.phase = "w"
    /\ bus.master = "ext"
    /\ bus.n = BufLen
    /\ bus' = [bus EXCEPT !.phase = "r", !.cmd = "r", !.n = 0]
    /\ events' = [events EXCEPT !["Read"] = TRUE]
    /\ prepared' = [d \in {"rx", "tx"} |-> FALSE]
    /\ lastEvent' = "Read"
    /\ trail' = "none"
    /\ UNCHANGED <<transfer, buf, latch, pc, held, queued, panicked, panics,
                   rx_buf, res, issued, edges, runs>>

\* one byte moves; the responder holds the clock until a transfer is prepared
BusByte ==
    /\ bus.phase # "free"
    /\ bus.n < BufLen
    /\ \/ /\ bus.phase = "w"
          /\ prepared["rx"]
          /\ buf' = [buf EXCEPT ![bus.n + 1] = Payload(bus.master)[bus.n + 1]]
          /\ bus' = [bus EXCEPT !.n = bus.n + 1]
       \/ /\ bus.phase = "r"
          /\ prepared["tx"]
          /\ buf' = buf
          /\ bus' = [bus EXCEPT !.n = bus.n + 1, !.rd = Append(bus.rd, buf[bus.n + 1])]
    /\ UNCHANGED <<transfer, events, prepared, latch, pc, held, queued, panicked,
                   panics, rx_buf, res, issued, lastEvent, trail, edges, runs>>

\* the controller ends the transaction: the Stopped event is raised
BusStop ==
    /\ bus.phase # "free"
    /\ bus.n = BufLen
    /\ bus' = [bus EXCEPT !.phase = "free"]
    /\ events' = [events EXCEPT !["Stopped"] = TRUE]
    /\ prepared' = [d \in {"rx", "tx"} |-> FALSE]
    /\ lastEvent' = "Stopped"
    /\ trail' = TrailAfter(bus.cmd, bus.master)
    /\ rx_buf' = IF bus.master = "twim" /\ bus.cmd = "r"
                 THEN [i \in 1..BufLen |-> bus.rd[i]] ELSE rx_buf
    /\ UNCHANGED <<transfer, buf, latch, pc, held, queued, panicked, panics,
                   res, issued, edges, runs>>

----------------------------------------------------------------------------
(* on_gpiote *)

\* variant: a full run queue goes unnoticed
spawn_is_err_never(q) == FALSE

\* spawn() returns Err when the run queue already holds Capacity instances
spawn_is_err(q) == q >= Capacity

\* variant: the spawn is lost
spawn_lost(q) == q

\* RTIC spawn: one more instance in the run queue
spawn(q) == q + 1

\* reset_events(); transfer.take().unwrap()
on_gpiote_take ==
    /\ CanEnter("on_gpiote")
    /\ latch' = FALSE
    /\ IF transfer.tag = "None"
       THEN /\ panic("on_gpiote")
            /\ UNCHANGED <<transfer, held>>
       ELSE /\ held' = [held EXCEPT !["on_gpiote"] = transfer]
            /\ transfer' = take(transfer)
            /\ pc' = [pc EXCEPT !["on_gpiote"] = "wait"]
            /\ UNCHANGED <<panicked, panics>>
    /\ UNCHANGED <<buf, events, prepared, queued, bus, rx_buf, res, issued,
                   lastEvent, trail, edges, runs>>

\* Running(t) => t.wait(), Idle(t) => t
on_gpiote_wait ==
    /\ CanStep("on_gpiote")
    /\ pc["on_gpiote"] = "wait"
    /\ held["on_gpiote"].tag = "Running" => is_done
    /\ held' = [held EXCEPT !["on_gpiote"] = Pair]
    /\ pc' = [pc EXCEPT !["on_gpiote"] = "zero"]
    /\ UNCHANGED <<transfer, buf, events, prepared, latch, queued, panicked,
                   panics, bus, rx_buf, res, issued, lastEvent, trail, edges, runs>>

\* buf.copy_from_slice(&[0; 8][..])
on_gpiote_zero ==
    /\ CanStep("on_gpiote")
    /\ pc["on_gpiote"] = "zero"
    /\ buf' = Zeros
    /\ trail' = "none"
    /\ pc' = [pc EXCEPT !["on_gpiote"] = "replace"]
    /\ UNCHANGED <<transfer, events, prepared, latch, held, queued, panicked,
                   panics, bus, rx_buf, res, issued, lastEvent, edges, runs>>

\* transfer.replace(Idle((buf, twis))); send_twi_cmds::spawn().unwrap()
on_gpiote_replace ==
    /\ CanStep("on_gpiote")
    /\ pc["on_gpiote"] = "replace"
    /\ transfer' = Idle
    /\ held' = [held EXCEPT !["on_gpiote"] = None]
    /\ IF spawn_is_err(queued)
       THEN /\ panic("on_gpiote")
            /\ UNCHANGED queued
       ELSE /\ queued' = spawn(queued)
            /\ pc' = [pc EXCEPT !["on_gpiote"] = "none"]
            /\ UNCHANGED <<panicked, panics>>
    /\ UNCHANGED <<buf, events, prepared, latch, bus, rx_buf, res, issued,
                   lastEvent, trail, edges, runs>>

----------------------------------------------------------------------------
(* on_twis *)

\* variant: the Stopped flag is examined first
Branch_stopped_first(ev) ==
    IF ev["Stopped"] THEN "Stopped" ELSE IF ev["Read"] THEN "Read" ELSE "Write"

\* if Read .. else if Write .. else
Branch(ev) ==
    IF ev["Read"] THEN "Read" ELSE IF ev["Write"] THEN "Write" ELSE "Stopped"

\* variant: the fallback branch puts a receive transfer back
Installed_fallback_running(b) ==
    CASE b = "Read" -> Running("tx")
      [] b = "Write" -> Running("rx")
      [] OTHER -> Running("rx")

\* what each branch puts back into the slot
Installed(b) ==
    CASE b = "Read" -> Running("tx")
      [] b = "Write" -> Running("rx")
      [] OTHER -> Idle

\* variant: the fallback branch clears the buffer as the reset handler does
traced_cleared(b) == [i \in 1..BufLen |-> 0]

\* the fallback branch only traces the buffer
traced(b) == b

\* variant: the flag of the branch taken is left set
reset_event_none(ev, b) == ev

\* variant: every event flag is cleared at once
reset_event_all(ev, b) == [e \in TwiEvent |-> FALSE]

\* twis.reset_event(TwiEvent::b)
reset_event(ev, b) == [ev EXCEPT ![b] = FALSE]

\* transfer.take().unwrap()
on_twis_take ==
    /\ CanEnter("on_twis")
    /\ IF transfer.tag = "None"
       THEN /\ panic("on_twis")
            /\ UNCHANGED <<transfer, held>>
       ELSE /\ held' = [held EXCEPT !["on_twis"] = transfer]
            /\ transfer' = take(transfer)
            /\ pc' = [pc EXCEPT !["on_twis"] = "wait"]
            /\ UNCHANGED <<panicked, panics>>
    /\ UNCHANGED <<buf, events, prepared, latch, queued, bus, rx_buf, res,
                   issued, lastEvent, trail, edges, runs>>

\* Running(t) => t.wait(), Idle(t) => t
on_twis_wait ==
    /\ CanStep("on_twis")
    /\ pc["on_twis"] = "wait"
    /\ held["on_twis"].tag = "Running" => is_done
    /\ held' = [held EXCEPT !["on_twis"] = Pair]
    /\ pc' = [pc EXCEPT !["on_twis"] = "branch"]
    /\ UNCHANGED <<transfer, buf, events, prepared, latch, queued, panicked,
                   panics, bus, rx_buf, res, issued, lastEvent, trail, edges, runs>>

\* the three branches: reset_event, tx / rx, transfer.replace
on_twis_branch ==
    /\ CanStep("on_twis")
    /\ pc["on_twis"] = "branch"
    /\ LET b == Branch(events) IN
          /\ events' = reset_event(events, b)
          /\ prepared' = CASE b = "Read" -> [prepared EXCEPT !["tx"] = TRUE]
                           [] b = "Write" -> [prepared EXCEPT !["rx"] = TRUE]
                           [] OTHER -> prepared
          /\ buf' = IF b = "Stopped" THEN traced(buf) ELSE buf
          /\ transfer' = Installed(b)
    /\ held' = [held EXCEPT !["on_twis"] = None]
    /\ pc' = [pc EXCEPT !["on_twis"] = "none"]
    /\ UNCHANGED <<latch, queued, panicked, panics, bus, rx_buf, res, issued,
                   lastEvent, trail, edges, runs>>

----------------------------------------------------------------------------
(* send_twi_cmds *)

\* the blocking twim call has not returned: its transaction is on the bus
TwimBusy == bus.phase # "free" /\ bus.master = "twim"

\* variant: a failed read ends the task
after_read_abort(r) == IF r = "Err" THEN "none" ELSE "write"

\* the step that follows twim.read, whatever its result
after_read(r) == "write"

\* variant: the task borrows BUF as its read buffer
shared_rx_buf(z) == rx_buf' = z /\ buf' = z

\* let rx_buf = &mut [0; 8][..]: a fresh local array, BUF is not touched
local_rx_buf(z) == rx_buf' = z /\ buf' = buf

\* the dispatcher takes the instance off the run queue and calls the task
send_twi_cmds_start ==
    /\ CanEnter("send_twi_cmds")
    /\ queued' = queued - 1
    /\ pc' = [pc EXCEPT !["send_twi_cmds"] = "read"]
    /\ local_rx_buf(Zeros)
    /\ res' = [o \in {"read", "write"} |-> "none"]
    /\ issued' = <<>>
    /\ UNCHANGED <<transfer, events, prepared, latch, held, panicked,
                   panics, bus, lastEvent, trail, edges, runs>>

\* twim.read(0x1A, rx_buf) is issued: the transaction starts, or fails at once
send_twi_cmds_read ==
    /\ CanStep("send_twi_cmds")
    /\ pc["send_twi_cmds"] = "read"
    /\ issued' = Append(issued, ReadCmd)
    /\ \/ /\ BusStart("r", "twim")
          /\ pc' = [pc EXCEPT !["send_twi_cmds"] = "reading"]
          /\ res' = res
       \/ /\ res' = [res EXCEPT !["read"] = "Err"]
          /\ pc' = [pc EXCEPT !["send_twi_cmds"] = after_read("Err")]
          /\ UNCHANGED <<bus, events, lastEvent>>
    /\ UNCHANGED <<transfer, buf, prepared, latch, held, queued, panicked,
                   panics, rx_buf, trail, edges, runs>>

\* twim.read returns Ok once its transaction has stopped
send_twi_cmds_read_done ==
    /\ CanStep("send_twi_cmds")
    /\ pc["send_twi_cmds"] = "reading"
    /\ ~TwimBusy
    /\ res' = [res EXCEPT !["read"] = "Ok"]
    /\ pc' = [pc EXCEPT !["send_twi_cmds"] = after_read("Ok")]
    /\ UNCHANGED <<transfer, buf, events, prepared, latch, held, queued,
                   panicked, panics, bus, rx_buf, issued, lastEvent, trail,
                   edges, runs>>

\* twim.write(0x1A, &tx_buf) is issued: the transaction starts, or fails at once
send_twi_cmds_write ==
    /\ CanStep("send_twi_cmds")
    /\ pc["send_twi_cmds"] = "write"
    /\ issued' = Append(issued, WriteCmd)
    /\ \/ /\ BusStart("w", "twim")
          /\ pc' = [pc EXCEPT !["send_twi_cmds"] = "writing"]
          /\ UNCHANGED <<res, runs>>
       \/ /\ res' = [res EXCEPT !["write"] = "Err"]
          /\ pc' = [pc EXCEPT !["send_twi_cmds"] = "none"]
          /\ runs' = runs + 1
          /\ UNCHANGED <<bus, events, lastEvent>>
    /\ UNCHANGED <<transfer, buf, prepared, latch, held, queued, panicked,
                   panics, rx_buf, trail, edges>>

\* twim.write returns Ok once its transaction has stopped; the task returns
send_twi_cmds_write_done ==
    /\ CanStep("send_twi_cmds")
    /\ pc["send_twi_cmds"] = "writing"
    /\ ~TwimBusy
    /\ res' = [res EXCEPT !["write"] = "Ok"]
    /\ pc' = [pc EXCEPT !["send_twi_cmds"] = "none"]
    /\ runs' = runs + 1
    /\ UNCHANGED <<transfer, buf, events, prepared, latch, held, queued,
                   panicked, panics, bus, rx_buf, issued, lastEvent, trail, edges>>

----------------------------------------------------------------------------

Next ==
    \/ GpioEdge
    \/ \E cmd \in {"w", "r"} : ExtStart(cmd)
    \/ ExtRestart
    \/ BusByte
    \/ BusStop
    \/ on_gpiote_take
    \/ on_gpiote_wait
    \/ on_gpiote_zero
    \/ on_gpiote_replace
    \/ on_twis_take
    \/ on_twis_wait
    \/ on_twis_branch
    \/ send_twi_cmds_start
    \/ send_twi_cmds_read
    \/ send_twi_cmds_read_done
    \/ send_twi_cmds_write
    \/ send_twi_cmds_write_done

Spec == Init /\ [][Next]_vars

----------------------------------------------------------------------------
(* The orderly environment: a reset edge or an external transaction arrives *)
(* only once everything before it has been served.                          *)

Settled ==
    /\ ~panicked
    /\ ~latch
    /\ \A t \in Tasks : pc[t] = "none"
    /\ queued = 0
    /\ bus.phase = "free"
    /\ \A e \in TwiEvent : ~events[e]

GpioEdgeSettled == Settled /\ GpioEdge

ExtStartSettled(cmd) == Settled /\ ExtStart(cmd)

NextOrderly ==
    \/ GpioEdgeSettled
    \/ \E cmd \in {"w", "r"} : ExtStartSettled(cmd)
    \/ BusByte
    \/ BusStop
    \/ on_gpiote_take
    \/ on_gpiote_wait
    \/ on_gpiote_zero
    \/ on_gpiote_replace
    \/ on_twis_take
    \/ on_twis_wait
    \/ on_twis_branch
    \/ send_twi_cmds_start
    \/ send_twi_cmds_read
    \/ send_twi_cmds_read_done
    \/ send_twi_cmds_write
    \/ send_twi_cmds_write_done

SpecOrderly == Init /\ [][NextOrderly]_vars

----------------------------------------------------------------------------
(* Fault injection: the slot is emptied behind the handlers' back *)

ForceEmpty ==
    /\ ~panicked
    /\ \A h \in Handlers : ~Active(h)
    /\ transfer # None
    /\ transfer' = None
    /\ UNCHANGED <<buf, events, prepared, latch, pc, held, queued, panicked,
                   panics, bus, rx_buf, res, issued, lastEvent, trail, edges, runs>>

NextFault == ForceEmpty \/ Next

SpecFault == Init /\ [][NextFault]_vars

----------------------------------------------------------------------------
(* Progress: every transaction on the bus ends with a stop (no repeated    *)
(* start), the bus moves whenever the responder lets it, and the NVIC       *)
(* serves what is pending.                                                  *)

NextLive ==
    \/ GpioEdge
    \/ \E cmd \in {"w", "r"} : ExtStart(cmd)
    \/ BusByte
    \/ BusStop
    \/ on_gpiote_take
    \/ on_gpiote_wait
    \/ on_gpiote_zero
    \/ on_gpiote_replace
    \/ on_twis_take
    \/ on_twis_wait
    \/ on_twis_branch
    \/ send_twi_cmds_start
    \/ send_twi_cmds_read
    \/ send_twi_cmds_read_done
    \/ send_twi_cmds_write
    \/ send_twi_cmds_write_done

Fairness ==
    /\ WF_vars(BusByte)
    /\ WF_vars(BusStop)
    /\ WF_vars(on_gpiote_take)
    /\ WF_vars(on_gpiote_wait)
    /\ WF_vars(on_gpiote_zero)
    /\ WF_vars(on_gpiote_replace)
    /\ WF_vars(on_twis_take)
    /\ WF_vars(on_twis_wait)
    /\ WF_vars(on_twis_branch)

SpecLive == Init /\ [][NextLive]_vars /\ Fairness

----------------------------------------------------------------------------
(* Claims *)

\* the Stopped event has been raised last and on_twis has served every flag
HandledStop ==
    /\ lastEvent = "Stopped"
    /\ ~Active("on_twis")
    /\ \A e \in TwiEvent : ~events[e]

\* C1: whenever no handler is between entry and return the slot holds Idle or
\* Running, never None, and at every moment the buffer is reachable through
\* exactly one of: the idle record, the pending transfer, a handler's local.
C1_SlotNeverEmpty ==
    /\ Cardinality(Owners) = 1
    /\ (\A h \in Handlers : ~Active(h)) => transfer \in {Idle, Running("tx"), Running("rx")}

C1_Witness ==
    /\ transfer.tag = "Running"
    /\ \A h \in Handlers : ~Active(h)
    /\ latch
    /\ events["Stopped"]
    /\ edges > 0

\* C2: when on_gpiote returns, every byte of the buffer is zero and the slot
\* holds Idle.
C2_ResetClears ==
    [][(pc["on_gpiote"] = "replace" /\ pc'["on_gpiote"] = "none")
        => (buf' = <<0, 0, 0, 0, 0, 0, 0, 0>> /\ transfer' = Idle)]_vars

\* C3: when on_twis returns and the last event raised is Stopped, the slot
\* holds Idle.
C3_StoppedLeavesIdle ==
    [][(pc["on_twis"] = "branch" /\ pc'["on_twis"] = "none" /\ lastEvent = "Stopped")
        => transfer' = Idle]_vars

C3_Witness ==
    /\ HandledStop
    /\ transfer = Idle
    /\ bus.phase = "free"
    /\ bus.n = BufLen
    /\ \A h \in Handlers : ~Active(h)

\* C4: in the orderly environment, once a write of B has stopped and been
\* served the slot is Idle and the buffer equals B; a read that follows is
\* served by a transmit transfer that sends the buffer and leaves it equal to
\* B, and the slot is Idle again once that read has stopped.
C4_RoundTrip ==
    /\ (HandledStop /\ trail \in {"w_ext", "wr_ext"})
          => (transfer = Idle /\ buf = <<9, 9, 9, 9, 9, 9, 9, 9>>)
    /\ (HandledStop /\ trail \in {"w_twim", "wr_twim"})
          => (transfer = Idle /\ buf = <<1, 2, 3, 4, 5, 6, 7, 8>>)
    /\ (HandledStop /\ trail \in {"wr_ext", "wr_twim"} /\ bus.cmd = "r")
          => bus.rd = buf
    /\ (bus.phase = "r" /\ bus.n > 0)
          => (transfer = Running("tx") /\ \A i \in 1..bus.n : bus.rd[i] = buf[i])

C4_Witness ==
    /\ HandledStop
    /\ trail = "wr_ext"
    /\ bus.cmd = "r"
    /\ bus.rd = <<9, 9, 9, 9, 9, 9, 9, 9>>
    /\ transfer = Idle
    /\ buf = <<9, 9, 9, 9, 9, 9, 9, 9>>

\* C5: in the orderly environment (every edge arrives after the execution
\* before it has completed) each on_gpiote invocation adds exactly one
\* instance to the run queue, the spawn never fails, and once everything is
\* served the number of completed executions equals the number of edges.
C5_OneRunPerEdge ==
    /\ [](/\ ~panicked
          /\ runs <= edges
          /\ edges <= runs + 1
          /\ (Settled => runs = edges))
    /\ [][(pc["on_gpiote"] = "replace" /\ pc'["on_gpiote"] # "replace")
            => (pc'["on_gpiote"] = "none" /\ queued' = queued + 1)]_vars

C5_Witness ==
    /\ Settled
    /\ edges = MaxResets
    /\ runs = MaxResets

\* C6: in the orderly environment a successful twim.read of send_twi_cmds
\* returns eight zero bytes, and once the task's write has stopped and been
\* served the buffer equals [1,2,3,4,5,6,7,8].
C6_FixedPayload ==
    /\ res["read"] = "Ok" => rx_buf = <<0, 0, 0, 0, 0, 0, 0, 0>>
    /\ (HandledStop /\ trail = "w_twim" /\ res["write"] = "Ok")
          => (transfer = Idle /\ buf = <<1, 2, 3, 4, 5, 6, 7, 8>>)

C6_Witness ==
    /\ HandledStop
    /\ trail = "w_twim"
    /\ res["read"] = "Ok"
    /\ res["write"] = "Ok"
    /\ rx_buf = <<0, 0, 0, 0, 0, 0, 0, 0>>
    /\ buf = <<1, 2, 3, 4, 5, 6, 7, 8>>

\* C7: the panic handler is entered at most once, and once it has been
\* entered no handler or task moves and no software state (slot, handler
\* locals, run queue, task results) changes.
C7_FatalHalts ==
    /\ [](panics <= 1)
    /\ [][panicked => /\ panicked'
                      /\ UNCHANGED <<transfer, pc, held, queued, res, issued,
                                     runs, panics>>]_vars

C7_Witness ==
    /\ panicked
    /\ panics = 1
    /\ transfer = None
    /\ \E h \in Handlers : pc[h] = "panic" /\ held[h] = None

\* C8: send_twi_cmds issues read(0x1A, 8 bytes) first and write(0x1A,
\* [1..8]) second; once the read has returned, Ok or Err, and the task has
\* moved on, the write has been issued; no step of the task panics.
C8_ReadThenWrite ==
    /\ [](/\ issued \in {<<>>,
                         <<[op |-> "read", address |-> 26, len |-> 8]>>,
                         <<[op |-> "read", address |-> 26, len |-> 8],
                           [op |-> "write", address |-> 26,
                            payload |-> <<1, 2, 3, 4, 5, 6, 7, 8>>]>>}
          /\ (res["read"] # "none" /\ pc["send_twi_cmds"] # "write")
                => Len(issued) = 2
          /\ res["write"] # "none" => Len(issued) = 2)
    /\ [][(res' # res \/ issued' # issued) => panicked' = panicked]_vars

C8_Witness ==
    /\ res["read"] = "Err"
    /\ res["write"] = "Ok"
    /\ Len(issued) = 2
    /\ pc["send_twi_cmds"] = "none"
    /\ ~panicked

\* C9: on_gpiote and on_twis are never both between entry and return, the
\* slot is empty only while exactly one of them holds its contents, and while
\* one holds them the other does not move.
C9_MutualExclusion ==
    /\ [](/\ ~(Active("on_gpiote") /\ Active("on_twis"))
          /\ transfer = None => Cardinality({h \in Handlers : held[h] # None}) = 1)
    /\ [][\A h \in Handlers :
            (held[h] # None /\ held'[h] # None)
               => \A o \in Handlers \ {h} : pc'[o] = pc[o] /\ held'[o] = held[o]]_vars

C9_Witness ==
    /\ Active("on_twis")
    /\ transfer = None
    /\ held["on_twis"] # None
    /\ latch
    /\ ~Active("on_gpiote")

\* C10: the branch of on_twis is fixed by the flags it finds: Read set gives
\* Running(tx) whatever Write and Stopped are, otherwise Write set gives
\* Running(rx), otherwise Idle.
C10_BranchPriority ==
    [][(pc["on_twis"] = "branch" /\ pc'["on_twis"] # "branch")
        => /\ events["Read"] => transfer' = Running("tx")
           /\ (~events["Read"] /\ events["Write"]) => transfer' = Running("rx")
           /\ (~events["Read"] /\ ~events["Write"]) => transfer' = Idle]_vars

C10_Witness ==
    /\ pc["on_twis"] = "branch"
    /\ events["Read"]
    /\ events["Stopped"]

\* a handler polls is_done for a transfer whose Stopped has not been raised
Spinning(h) ==
    /\ pc[h] = "wait"
    /\ held[h].tag = "Running"
    /\ ~is_done

\* the TWIS DMA engine is serving a prepared transfer on the bus
DmaInFlight ==
    \/ bus.phase = "w" /\ prepared["rx"] /\ bus.n < BufLen
    \/ bus.phase = "r" /\ prepared["tx"] /\ bus.n < BufLen

\* C11: whenever on_twis has taken a Running transfer out of the slot, the
\* Stopped event of its transaction has been raised, so wait returns at once.
C11_WaitImmediate ==
    (pc["on_twis"] = "wait" /\ held["on_twis"].tag = "Running") => events["Stopped"]

\* C12: no handler, on_twis or on_gpiote, ever spins in wait on a transfer
\* whose bus transaction is still in progress.
C12_NoHandlerBlocks ==
    \A h \in Handlers : ~Spinning(h)

\* C13: while on_gpiote zeroes the buffer or on_twis traces it, and whenever
\* the slot holds Idle, no DMA transfer is in flight, and no received byte is
\* stored into the buffer while the slot holds Idle.
C13_NoDmaWhileIdle ==
    /\ [](/\ transfer = Idle => ~DmaInFlight
          /\ pc["on_gpiote"] \in {"zero", "replace"} => ~DmaInFlight
          /\ (pc["on_twis"] = "branch" /\ ~events["Read"] /\ ~events["Write"])
                => ~DmaInFlight)
    /\ [][(transfer = Idle /\ bus.phase = "w") => buf' = buf]_vars

\* C14: an on_gpiote invocation that reaches its spawn while an instance is
\* still waiting in the run queue enters the panic handler (the instance
\* stays queued, nothing is dropped); with no instance waiting the spawn
\* succeeds; and while a reset edge is latched a waiting instance is not
\* taken off the queue before on_gpiote has run.
C14_SpawnFailureIsFatal ==
    [][/\ (pc["on_gpiote"] = "replace" /\ pc'["on_gpiote"] # "replace" /\ queued = 1)
            => (panicked' /\ pc'["on_gpiote"] = "panic" /\ queued' = 1)
       /\ (pc["on_gpiote"] = "replace" /\ pc'["on_gpiote"] # "replace" /\ queued = 0)
            => (~panicked' /\ pc'["on_gpiote"] = "none" /\ queued' = 1)
       /\ (latch /\ queued = 1) => queued' = 1]_vars

C14_Witness ==
    /\ panicked
    /\ pc["on_gpiote"] = "panic"
    /\ queued = 1
    /\ transfer = Idle
    /\ edges = 2

C16_TaskDeferred ==
    /\ [][/\ pc'["send_twi_cmds"] # pc["send_twi_cmds"]
               => \A h \in Handlers : ~Active(h) /\ ~Active(h)'
          /\ (pc["on_gpiote"] = "replace" /\ pc'["on_gpiote"] = "none")
               => (queued' = 1 /\ runs' = runs
                   /\ pc'["send_twi_cmds"] = pc["send_twi_cmds"])]_vars
    /\ [](\A h \in Handlers :
            (Active("send_twi_cmds") /\ Pending(h) /\ ~panicked
               /\ \A o \in Handlers : ~Active(o))
              => ENABLED (IF h = "on_gpiote" THEN on_gpiote_take ELSE on_twis_take))

C16_Witness ==
    /\ pc["send_twi_cmds"] = "reading"
    /\ pc["on_gpiote"] = "zero"
    /\ ~Active("on_twis")
    /\ queued = 0

\* C17: no step of send_twi_cmds changes the slot, the handlers' hold on
\* its contents, or the buffer; the slot changes only in a step of on_gpiote
\* or on_twis, and the buffer only when on_gpiote zeroes it or the responder's
\* receive DMA stores a byte.
C17_TaskTouchesNothing ==
    [][/\ (pc'["send_twi_cmds"] # pc["send_twi_cmds"] \/ res' # res \/ issued' # issued)
            => (transfer' = transfer /\ held' = held /\ buf' = buf)
       /\ transfer' # transfer => \E h \in Handlers : pc'[h] # pc[h]
       /\ buf' # buf => \/ (pc["on_gpiote"] = "zero" /\ pc'["on_gpiote"] = "replace")
                        \/ (bus.phase = "w" /\ prepared["rx"] /\ bus'.n = bus.n + 1)]_vars

C17_Witness ==
    /\ pc["send_twi_cmds"] = "none"
    /\ runs > 0
    /\ res["read"] = "Err"
    /\ res["write"] = "Err"
    /\ buf = <<9, 9, 9, 9, 9, 9, 9, 9>>
    /\ transfer = Idle

\* C18: a run of on_twis clears the flag of the branch it takes (Read if
\* set, else Write if set, else Stopped) and leaves the other two as they
\* were; a flag left set lets on_twis be entered again; no step of on_gpiote
\* changes a bus event flag, and its entry clears the GPIO latch.
C18_OneFlagPerRun ==
    /\ [][/\ (pc["on_twis"] = "branch" /\ pc'["on_twis"] # "branch")
               => LET b == IF events["Read"] THEN "Read"
                           ELSE IF events["Write"] THEN "Write" ELSE "Stopped"
                  IN /\ events[b]
                     /\ ~events'[b]
                     /\ \A e \in TwiEvent \ {b} : events'[e] = events[e]
          /\ (pc'["on_twis"] # pc["on_twis"] /\ pc["on_twis"] # "branch")
               => events' = events
          /\ pc'["on_gpiote"] # pc["on_gpiote"] => events' = events
          /\ (pc["on_gpiote"] = "none" /\ pc'["on_gpiote"] # "none") => ~latch']_vars
    /\ []((~panicked /\ (\A h \in Handlers : ~Active(h))
             /\ \E e \in TwiEvent : events[e])
            => ENABLED on_twis_take)

C18_Witness ==
    /\ transfer = Running("rx")
    /\ ~Active("on_twis")
    /\ ~Active("on_gpiote")
    /\ events["Stopped"]
    /\ ~events["Write"]
    /\ prepared["rx"]
    /\ bus.phase = "w"
    /\ bus.n = 0

\* C19: on_twis starts a transmit or receive only with the pair its wait
\* has returned and only while the responder has no prepared transfer and no
\* DMA in flight; the two directions are never prepared together; on_twis
\* never enters the panic handler.
C19_OneDmaAtATime ==
    /\ [](/\ ~(prepared["rx"] /\ prepared["tx"])
          /\ pc["on_twis"] # "panic")
    /\ [][(pc["on_twis"] = "branch" /\ pc'["on_twis"] # "branch"
             /\ (events["Read"] \/ events["Write"]))
            => /\ held["on_twis"] = Pair
               /\ ~DmaInFlight
               /\ ~prepared["rx"]
               /\ ~prepared["tx"]
               /\ transfer'.tag = "Running"]_vars

C19_Witness ==
    /\ pc["on_twis"] = "branch"
    /\ held["on_twis"] = Pair
    /\ events["Write"]
    /\ events["Stopped"]
    /\ bus.phase = "w"
    /\ bus.n = 0
    /\ ~prepared["rx"]

\* C20: the system starts with the slot holding Idle and an all-zero
\* buffer; the buffer changes only when on_gpiote zeroes it or when a receive
\* transfer prepared by on_twis's Write branch stores a byte; in particular
\* no step of a read transaction and no Stopped handling changes it.
C20_BufferChanges ==
    /\ (transfer = Idle /\ buf = <<0, 0, 0, 0, 0, 0, 0, 0>>)
    /\ [][/\ buf' # buf
               => \/ (pc["on_gpiote"] = "zero" /\ buf' = <<0, 0, 0, 0, 0, 0, 0, 0>>)
                  \/ (bus.phase = "w" /\ prepared["rx"] /\ bus'.n = bus.n + 1
                        /\ \A i \in 1..BufLen : i # bus'.n => buf'[i] = buf[i])
          /\ (prepared'["rx"] /\ ~prepared["rx"])
               => (pc["on_twis"] = "branch" /\ events["Write"] /\ ~events["Read"])
          /\ bus.phase = "r" /\ bus'.phase = "r" /\ pc'["on_gpiote"] = pc["on_gpiote"]
               => buf' = buf
          /\ pc'["on_twis"] # pc["on_twis"] => buf' = buf]_vars

C20_Witness ==
    /\ edges > 0
    /\ pc["send_twi_cmds"] = "write"
    /\ res["read"] = "Ok"
    /\ rx_buf = <<0, 0, 0, 0, 0, 0, 0, 0>>
    /\ HandledStop
    /\ transfer = Idle
    /\ buf = <<0, 0, 0, 0, 0, 0, 0, 0>>

====
